---- MODULE Spec2Model ----
(***************************************************************************)
(* Model of the logs2metrics rule lifecycle: the rule store and CRUD       *)
(* handlers of api/main.py, the Elasticsearch backend provisioner of       *)
(* api/elastic_backend.py and the health reconciliation cycle.             *)
(***************************************************************************)
EXTENDS Integers, Sequences, FiniteSets, TLC

VARIABLES rules, job, idx, ilm, monitor, last, bk, loop, fn

vars == <<rules, job, idx, ilm, monitor, last, bk, loop, fn>>

(***************************************************************************)
(* Bounds and value domains                                                *)
(***************************************************************************)

MaxFaults == 2

MaxKeys == 2

MaxDocs == 2

MaxDims == 6

RuleIds == {1, 2}

Names == {"n1", "n2"}

Owners == {"o1"}

Sources == {"app-logs*"}

GroupBys == {"sync30s", "sync1m"}

Computes == {"count"}

Retentions == {"450d"}

Statuses == {"draft", "active", "paused", "error"}

\* live state strings of a transform as reported by the engine
EngineStates == {"started", "indexing", "stopping", "stopped", "aborting", "failed"}
JobValues == EngineStates \cup {"absent"}

ProvisionOps == {"get_lifecycle", "put_lifecycle", "create_index",
                 "put_transform", "start_transform"}

TeardownOps == {"stop_transform", "delete_transform", "delete_index"}

\* sets of engine calls that the engine rejects during one backend call
ProvisionFaults == {F \in SUBSET (ProvisionOps \cup TeardownOps) : Cardinality(F) <= MaxFaults}

DeprovisionFaults == {F \in SUBSET TeardownOps : Cardinality(F) <= MaxFaults}

NoExc == <<>>

(***************************************************************************)
(* The external engine: one administrative call and its outcome            *)
(***************************************************************************)

Engine(j, i, l) == [job |-> j, idx |-> i, ilm |-> l]

\* x is the rule id (transform / index calls) or the retention (ilm calls)
EsApply(e, op, x, force, F) ==
  IF op \in F THEN [e |-> e, out |-> "error"]
  ELSE CASE op = "get_lifecycle" ->
              [e |-> e, out |-> IF x \in e.ilm THEN "ok" ELSE "not_found"]
         [] op = "put_lifecycle" ->
              [e |-> [e EXCEPT !.ilm = @ \cup {x}], out |-> "ok"]
         [] op = "create_index" ->
              IF e.idx[x] THEN [e |-> e, out |-> "exists"]
              ELSE [e |-> [e EXCEPT !.idx[x] = TRUE], out |-> "ok"]
         [] op = "put_transform" ->
              IF e.job[x] # "absent" THEN [e |-> e, out |-> "exists"]
              ELSE [e |-> [e EXCEPT !.job[x] = "stopped"], out |-> "ok"]
         [] op = "start_transform" ->
              IF e.job[x] = "absent" THEN [e |-> e, out |-> "not_found"]
              ELSE IF e.job[x] # "stopped" THEN [e |-> e, out |-> "conflict"]
              ELSE [e |-> [e EXCEPT !.job[x] = "started"], out |-> "ok"]
         [] op = "stop_transform" ->
              IF e.job[x] = "absent" THEN [e |-> e, out |-> "not_found"]
              ELSE IF e.job[x] = "failed" /\ ~force THEN [e |-> e, out |-> "conflict"]
              ELSE [e |-> [e EXCEPT !.job[x] = "stopped"], out |-> "ok"]
         [] op = "delete_transform" ->
              IF e.job[x] = "absent" THEN [e |-> e, out |-> "not_found"]
              ELSE IF e.job[x] # "stopped" THEN [e |-> e, out |-> "conflict"]
              ELSE [e |-> [e EXCEPT !.job[x] = "absent"], out |-> "ok"]
         [] op = "delete_index" ->
              IF ~e.idx[x] THEN [e |-> e, out |-> "not_found"]
              ELSE [e |-> [e EXCEPT !.idx[x] = FALSE], out |-> "ok"]
         [] op = "get_transform_stats" ->
              [e |-> e, out |-> IF e.job[x] = "absent" THEN "not_found" ELSE "ok"]

\* one call inside a try block: skipped once an exception is in flight;
\* a response other than ok raises, the exception carrying <<op, outcome>>
Outcome(c, op, r) ==
  [e |-> r.e,
   trace |-> Append(c.trace, <<op, r.out>>),
   exc |-> IF r.out = "ok" THEN NoExc ELSE <<op, r.out>>]

TryStep(c, op, x, force, F) ==
  IF c.exc # NoExc THEN c ELSE Outcome(c, op, EsApply(c.e, op, x, force, F))

\* the context a backend method starts with: no call made, nothing raised
Enter(e) == [e |-> e, trace |-> <<>>, exc |-> NoExc]

Swallow(c) == [c EXCEPT !.exc = NoExc]

(***************************************************************************)
(* ElasticMetricsBackend                                                   *)
(***************************************************************************)

\* except NotFoundError of _ensure_ilm_policy: g is the context after get_lifecycle
PutIfMissing(c, g, retention, F) ==
  IF c.exc = NoExc /\ g.exc # NoExc /\ g.exc[2] = "not_found"
  THEN TryStep(Swallow(g), "put_lifecycle", retention, FALSE, F)
  ELSE g

_ensure_ilm_policy_AlwaysPut(c, retention, F) ==
  TryStep(Swallow(TryStep(c, "get_lifecycle", retention, FALSE, F)),
          "put_lifecycle", retention, FALSE, F)

_ensure_ilm_policy(c, retention, F) ==
  PutIfMissing(c, TryStep(c, "get_lifecycle", retention, FALSE, F), retention, F)

_create_metrics_index(c, id, F) == TryStep(c, "create_index", id, FALSE, F)

_cleanup_partial_OneTry(c, id, F) ==
  LET s1 == TryStep(c, "stop_transform", id, FALSE, F)
      s2 == TryStep(s1, "delete_transform", id, FALSE, F)
      s3 == TryStep(s2, "delete_index", id, FALSE, F)
  IN Swallow(s3)

_cleanup_partial(c, id, F) ==
  LET s1 == Swallow(TryStep(c, "stop_transform", id, FALSE, F))
      s2 == Swallow(TryStep(s1, "delete_transform", id, FALSE, F))
      s3 == Swallow(TryStep(s2, "delete_index", id, FALSE, F))
  IN s3

\* str(e) of the exception caught by provision
ErrorText(exc) == exc

\* ProvisionResult(success, ...) built from the context c the method ends with
ProvisionResult(c, success, exc) ==
  [e |-> c.e, trace |-> c.trace, raised |-> c.exc # NoExc,
   success |-> success, error |-> IF success THEN NoExc ELSE ErrorText(exc)]

\* c is the context after the try body of provision
ProvisionExcept(c, id, F) ==
  IF c.exc = NoExc
  THEN ProvisionResult(c, TRUE, NoExc)
  ELSE ProvisionResult(_cleanup_partial(Swallow(c), id, F), FALSE, c.exc)

provision(e, id, retention, F) ==
  LET c1 == _ensure_ilm_policy(Enter(e), retention, F)
      c2 == _create_metrics_index(c1, id, F)
      c3 == TryStep(c2, "put_transform", id, FALSE, F)
      c4 == TryStep(c3, "start_transform", id, FALSE, F)
  IN ProvisionExcept(c4, id, F)

DeprovisionCatches_NotFoundOnly(out) == out = "not_found"

\* the except clauses of deprovision: NotFoundError and Exception
DeprovisionCatches(out) == out \in {"not_found", "exists", "conflict", "error"}

DeprovisionExcept(c) ==
  IF c.exc # NoExc /\ DeprovisionCatches(c.exc[2]) THEN Swallow(c) ELSE c

\* one try / except block of deprovision; the calls pass force = True
DeprovisionStep(c, op, id, F) == DeprovisionExcept(TryStep(c, op, id, TRUE, F))

DeprovisionReturn(c) == [e |-> c.e, trace |-> c.trace, raised |-> c.exc # NoExc]

deprovision(e, id, F) ==
  LET d1 == DeprovisionStep(Enter(e), "stop_transform", id, F)
      d2 == DeprovisionStep(d1, "delete_transform", id, F)
      d3 == DeprovisionStep(d2, "delete_index", id, F)
  IN DeprovisionReturn(d3)

\* a backend double whose deprovision raises (main.py codes against the
\* MetricsBackend interface and guards the call); otherwise the Elastic backend
BackendDeprovision(e, id, F, stub) ==
  IF stub THEN [e |-> e, trace |-> <<>>, raised |-> TRUE]
  ELSE deprovision(e, id, F)

_map_transform_state_Running(state) ==
  CASE state = "running" -> "green"
    [] state = "indexing" -> "green"
    [] state = "stopping" -> "yellow"
    [] state = "stopped" -> "stopped"
    [] state = "aborting" -> "red"
    [] state = "failed" -> "red"
    [] OTHER -> "unknown"

_map_transform_state(state) ==
  CASE state = "started" -> "green"
    [] state = "indexing" -> "green"
    [] state = "stopping" -> "yellow"
    [] state = "stopped" -> "stopped"
    [] state = "aborting" -> "red"
    [] state = "failed" -> "red"
    [] OTHER -> "unknown"

\* empty: the engine answers the stats request with an empty transforms list
\* state strings a stats response may carry; "missing": the entry has no state key
StateStrings == EngineStates \cup {"running", "unknown", "missing"}

\* transforms[0] of a stats response; has_stats: the entry has a stats block
TransformEntries ==
  [state : StateStrings, has_stats : BOOLEAN,
   documents_processed : 0..MaxDocs, documents_indexed : 0..MaxDocs]

\* the BackendStatus built from the entry t (defaults: error None, counters 0)
StatusOfTransform(t) ==
  [raised |-> FALSE,
   health |-> _map_transform_state(IF t.state = "missing" THEN "unknown" ELSE t.state),
   docs_processed |-> IF t.has_stats THEN t.documents_processed ELSE 0,
   docs_indexed |-> IF t.has_stats THEN t.documents_indexed ELSE 0,
   error |-> "none"]

\* the entry of a job in live state `state` whose counters the engine leaves out
BareEntry(state) ==
  [state |-> state, has_stats |-> FALSE, documents_processed |-> 0,
   documents_indexed |-> 0]

\* c is the context after the stats request
StatusReturn(c, state, emptyList) ==
  IF emptyList
  THEN [raised |-> FALSE, health |-> "unknown", docs_processed |-> 0,
        docs_indexed |-> 0, error |-> "none"]
  ELSE IF c.exc = NoExc
  THEN StatusOfTransform(BareEntry(state))
  ELSE IF c.exc[2] = "not_found"
  THEN [raised |-> FALSE, health |-> "unknown", docs_processed |-> 0,
        docs_indexed |-> 0, error |-> "Transform not found"]
  ELSE [raised |-> TRUE, health |-> "none", docs_processed |-> 0,
        docs_indexed |-> 0, error |-> "none"]

get_status(e, id, F, empty) ==
  StatusReturn(TryStep(Enter(e), "get_transform_stats", id, FALSE, F), e.job[id],
               empty /\ e.job[id] = "absent" /\ "get_transform_stats" \notin F)

(***************************************************************************)
(* es_connector and cost_estimator: the estimate of a draft rule           *)
(***************************************************************************)

METRIC_POINT_SIZE_BYTES == 40

DEFAULT_LOG_RETENTION_DAYS == 30

HIGH_CARDINALITY_FIELDS ==
  {"user_id", "userid", "user_name", "username", "request_id", "requestid", "req_id",
   "session_id", "sessionid", "trace_id", "traceid", "span_id", "spanid",
   "transaction_id", "txn_id", "ip", "ip_address", "client_ip", "source_ip",
   "uuid", "guid", "correlation_id", "message", "msg", "log", "body"}

\* dimension names of the requests, in the order the requests list them
DimNames == <<"User_ID", "service", "host", "d1", "d2", "d3", "d4", "d5">>

\* str.lower() on the dimension names
Lower(d) == IF d = "User_ID" THEN "user_id" ELSE d

\* group_by.dimensions: runs of DimNames of at most MaxDims names
Dimensions ==
  {d \in {SubSeq(DimNames, a, b) : a \in 1..3, b \in 0..Len(DimNames)} :
     Len(d) <= MaxDims}

\* source.index_pattern as its literal pieces and wildcard characters
IndexPatterns ==
  {<<"app-logs", "*">>, <<"app-logs">>, <<"*">>, <<"logs-", "*", "*">>,
   <<"logs-", "*", "-eu">>}

\* group_by.time_bucket as <<number, unit>>
TimeBuckets == {<<1, "d">>, <<12, "h">>}

\* backend_config.retention_days
RetentionDays == {1, 2}

\* the part of a RuleCreate body that the estimate and the guardrails read
Drafts ==
  [index_pattern : IndexPatterns, dimensions : Dimensions,
   time_bucket : TimeBuckets, retention_days : RetentionDays]

\* the engine as the connector finds it: whether the volume lookup succeeds,
\* the volume it reports, the dimensions whose cardinality lookup fails and
\* the cardinality it reports for the others
EsAnswers ==
  [stats_ok : BOOLEAN, doc_count : {0, 1000}, store_size_bytes : {100, 1000000},
   card_fail : {{}, {"service"}, {"service", "host"}}, cardinality : {0, 2}]

\* str.rstrip("*")
RECURSIVE RStripStar(_)
RStripStar(p) ==
  IF p # <<>> /\ p[Len(p)] = "*" THEN RStripStar(SubSeq(p, 1, Len(p) - 1)) ELSE p

\* index = pattern.rstrip("*"); if not index: index = pattern
StrippedIndex(stripped, pattern) == IF stripped = <<>> THEN pattern ELSE stripped

VolumeIndex(pattern) == StrippedIndex(RStripStar(pattern), pattern)

CardStep_NoFloor(acc, index, dim, es) ==
  [product |-> acc.product * (IF dim \in es.card_fail THEN 100 ELSE es.cardinality),
   queries |-> Append(acc.queries, <<"get_field_cardinality", index, dim>>)]

\* the series estimate after the lookup for dim has been attempted
CardStep(acc, index, dim, es) ==
  [product |-> acc.product * (IF dim \in es.card_fail THEN 100
                              ELSE IF es.cardinality > 1 THEN es.cardinality ELSE 1),
   queries |-> Append(acc.queries, <<"get_field_cardinality", index, dim>>)]

RECURSIVE CardLoop(_, _, _, _)
CardLoop(acc, index, dims, es) ==
  IF dims = <<>> THEN acc
  ELSE CardLoop(CardStep(acc, index, Head(dims), es), index, Tail(dims), es)

_estimate_series_count(index, dims, es, queries) ==
  CardLoop([product |-> 1, queries |-> queries], index, dims, es)

_parse_time_bucket_seconds(bucket) ==
  IF bucket = <<>> THEN 60
  ELSE CASE bucket[2] = "s" -> IF bucket[1] > 1 THEN bucket[1] ELSE 1
         [] bucket[2] = "m" -> IF bucket[1] * 60 > 1 THEN bucket[1] * 60 ELSE 1
         [] bucket[2] = "h" -> IF bucket[1] * 3600 > 1 THEN bucket[1] * 3600 ELSE 1
         [] bucket[2] = "d" -> IF bucket[1] * 86400 > 1 THEN bucket[1] * 86400 ELSE 1
         [] OTHER -> 60

\* round(savings_gb, 4) > 0 for a difference of `bytes` bytes
SavingsPositive(bytes) == bytes > (1024 * 1024 * 1024) \div 20000

\* the CostEstimate with storage in bytes; the ratios savings_pct and
\* query_speedup_x are left out
CostEstimate(log_bytes, metric_bytes, series, docs, points, retention) ==
  [log_storage_bytes |-> log_bytes, metric_storage_bytes |-> metric_bytes,
   savings_positive |-> SavingsPositive(log_bytes - metric_bytes),
   estimated_series_count |-> series, docs_per_day |-> docs,
   metric_points_per_day |-> points,
   log_retention_days |-> DEFAULT_LOG_RETENTION_DAYS,
   metric_retention_days |-> retention]

\* the estimate once the series count sc is known
CostOfSeries(rule, es, sc, points) ==
  [raised |-> FALSE, queries |-> sc.queries,
   cost |-> CostEstimate(es.store_size_bytes * DEFAULT_LOG_RETENTION_DAYS,
                         points * METRIC_POINT_SIZE_BYTES * rule.retention_days,
                         sc.product, es.doc_count, points, rule.retention_days)]

PointsPerDay(sc, bucket_seconds) == sc.product * (86400 \div bucket_seconds)

CostAfterSeries(rule, es, sc) ==
  CostOfSeries(rule, es, sc,
               PointsPerDay(sc, _parse_time_bucket_seconds(rule.time_bucket)))

\* estimate_cost after get_index_stats(index) has been issued
CostAfterStats(rule, es, index, queries) ==
  IF ~es.stats_ok
  THEN [raised |-> TRUE, queries |-> queries, cost |-> <<>>]
  ELSE IF es.doc_count = 0
  THEN [raised |-> FALSE, queries |-> queries,
        cost |-> CostEstimate(0, 0, 0, 0, 0, rule.retention_days)]
  ELSE CostAfterSeries(rule, es,
                       _estimate_series_count(index, rule.dimensions, es, queries))

estimate_cost(rule, es) ==
  CostAfterStats(rule, es, VolumeIndex(rule.index_pattern),
                 <<<<"get_index_stats", VolumeIndex(rule.index_pattern)>>>>)

(***************************************************************************)
(* guardrails: the four checks and the report                              *)
(***************************************************************************)

MAX_SERIES_COUNT == 100000

MAX_DIMENSIONS == 5

\* a text, by the values formatted into it
Text(kind, numbers, names) == [kind |-> kind, numbers |-> numbers, names |-> names]

\* suggested_fix of a result that passed
None == Text("None", <<>>, <<>>)

GuardrailResult(name, passed, explanation, suggested_fix) ==
  [name |-> name, passed |-> passed, explanation |-> explanation,
   suggested_fix |-> suggested_fix]

\* dims[MAX_DIMENSIONS:]
Excess(dims) == SubSeq(dims, MAX_DIMENSIONS + 1, Len(dims))

_check_dimension_limit_AtSix(dims) ==
  IF Len(dims) <= MAX_DIMENSIONS + 1
  THEN GuardrailResult("dimension_limit", TRUE,
                       Text("uses", <<Len(dims), MAX_DIMENSIONS>>, <<>>), None)
  ELSE GuardrailResult("dimension_limit", FALSE,
                       Text("exceeds", <<Len(dims), MAX_DIMENSIONS>>, <<>>),
                       Text("remove", <<MAX_DIMENSIONS>>, Excess(dims)))

_check_dimension_limit(dims) ==
  IF Len(dims) <= MAX_DIMENSIONS
  THEN GuardrailResult("dimension_limit", TRUE,
                       Text("uses", <<Len(dims), MAX_DIMENSIONS>>, <<>>), None)
  ELSE GuardrailResult("dimension_limit", FALSE,
                       Text("exceeds", <<Len(dims), MAX_DIMENSIONS>>, <<>>),
                       Text("remove", <<MAX_DIMENSIONS>>, Excess(dims)))

_check_cardinality(series) ==
  IF series <= MAX_SERIES_COUNT
  THEN GuardrailResult("cardinality", TRUE,
                       Text("series", <<series, MAX_SERIES_COUNT>>, <<>>), None)
  ELSE GuardrailResult("cardinality", FALSE,
                       Text("exceeds", <<series, MAX_SERIES_COUNT>>, <<>>),
                       Text("remove high-cardinality dimensions", <<>>, <<>>))

\* [d for d in dims if d.lower() in HIGH_CARDINALITY_FIELDS]
Flagged(dims) == SelectSeq(dims, LAMBDA d : Lower(d) \in HIGH_CARDINALITY_FIELDS)

FlaggedResult(flagged) ==
  IF flagged = <<>>
  THEN GuardrailResult("high_cardinality_fields", TRUE,
                       Text("none detected", <<>>, <<>>), None)
  ELSE GuardrailResult("high_cardinality_fields", FALSE,
                       Text("unbounded", <<>>, flagged),
                       Text("remove", <<>>, flagged))

_check_high_cardinality_fields(dims) == FlaggedResult(Flagged(dims))

_check_net_savings(cost) ==
  IF cost.savings_positive
  THEN GuardrailResult("net_savings", TRUE,
                       Text("savings", <<cost.metric_storage_bytes,
                                         cost.log_storage_bytes>>, <<>>), None)
  ELSE GuardrailResult("net_savings", FALSE,
                       Text("exceeds", <<cost.metric_storage_bytes,
                                         cost.log_storage_bytes>>, <<>>),
                       Text("use a larger time bucket", <<>>, <<>>))

AllPassed_Any(results) == \E n \in 1..Len(results) : results[n].passed

\* all(r.passed for r in results)
AllPassed(results) == \A n \in 1..Len(results) : results[n].passed

GuardrailsReport(results, est) ==
  [raised |-> FALSE, queries |-> est.queries, all_passed |-> AllPassed(results),
   results |-> results, cost_estimate |-> est.cost]

\* evaluate once estimate_cost has ended as est
Checks(rule, est) ==
  IF est.raised
  THEN [raised |-> TRUE, queries |-> est.queries, all_passed |-> FALSE,
        results |-> <<>>, cost_estimate |-> <<>>]
  ELSE GuardrailsReport(<<_check_dimension_limit(rule.dimensions),
                          _check_cardinality(est.cost.estimated_series_count),
                          _check_high_cardinality_fields(rule.dimensions),
                          _check_net_savings(est.cost)>>, est)

evaluate(rule, es) == Checks(rule, estimate_cost(rule, es))

(***************************************************************************)
(* Rule store and request bodies                                           *)
(***************************************************************************)

Keys == {"name", "owner", "source", "group_by", "compute", "backend_config", "status"}

\* RuleCreate bodies: every field present (defaults filled in)
RuleCreate ==
  [name : Names, owner : Owners, source : Sources, group_by : GroupBys,
   compute : Computes, backend_config : Retentions, status : Statuses]

\* RuleUpdate bodies as dumped with exclude_unset: the keys the request sets
RuleUpdate ==
  {[k \in K |-> full[k]] :
     full \in RuleCreate, K \in {K \in SUBSET Keys : Cardinality(K) <= MaxKeys}}

NoRule == [k \in Keys |-> IF k = "status" THEN "absent" ELSE "none"]

Exists(rs, id) == rs[id]["status"] # "absent"

\* SQLite rowid allocation of an INTEGER PRIMARY KEY: largest id in use plus one
NextId(rs) ==
  LET used == {i \in RuleIds : Exists(rs, i)}
  IN IF used = {} THEN 1 ELSE (CHOOSE m \in used : \A i \in used : i <= m) + 1

SetStatus(rs, id, st) == [rs EXCEPT ![id]["status"] = st]

(***************************************************************************)
(* main.py: the pieces of the handlers                                     *)
(***************************************************************************)

StatusAfterProvision_Draft(success, status) == IF success THEN status ELSE "draft"

\* if not result.success: rule.status = error
StatusAfterProvision(success, status) == IF success THEN status ELSE "error"

NeedsReprovision_NoSource(keys) == {"group_by", "compute"} \cap keys # {}

NeedsReprovision_Name(keys) == {"group_by", "compute", "source", "name"} \cap keys # {}

\* config_fields & update_data.keys()
NeedsReprovision(keys) == {"group_by", "compute", "source"} \cap keys # {}

GuardedDeprovision_NoTry(r) == r

\* try: metrics_backend.deprovision(...) except Exception: log.warning(...)
\* the result tells whether an exception leaves the guarded call
GuardedDeprovision(r) == [r EXCEPT !.raised = FALSE]

\* delete_rule: deprovision if the rule was active or errored
DeleteDeprovisions(status) == status \in {"active", "error"}

\* the statement "provision, then store error on failure" shared by the handlers
\* r is the ProvisionResult the backend returned
StoreProvisionResult(rs, id, r) ==
  [rules |-> SetStatus(rs, id, StatusAfterProvision(r.success, rs[id]["status"])),
   e |-> r.e,
   calls |-> <<<<"provision", id, IF r.success THEN "ok" ELSE "fail">>>>,
   raised |-> r.raised]

ProvisionAndStore(rs, e, id, F) ==
  StoreProvisionResult(rs, id, provision(e, id, rs[id]["backend_config"], F))

\* raw is the way the backend's deprovision ended
AfterDeprovision(rs, id, raw) ==
  [rules |-> rs, e |-> raw.e,
   calls |-> <<<<"deprovision", id, IF raw.raised THEN "raise" ELSE "ok">>>>,
   raised |-> GuardedDeprovision(raw).raised]

DeprovisionOnly(rs, e, id, F, stub) ==
  AfterDeprovision(rs, id, BackendDeprovision(e, id, F, stub))

NoBackend(rs, e) ==
  [rules |-> rs, e |-> e, calls |-> <<>>, raised |-> FALSE]

\* record of the request (or cycle) that has just completed
Req(op, id, resp, old, want, keys, gate, calls, written) ==
  [op |-> op, id |-> id, resp |-> resp, old |-> old, want |-> want, keys |-> keys,
   gate |-> gate, calls |-> calls, written |-> written]

create_rule_NoProvision(rs, e, id, body, F) ==
  NoBackend([rs EXCEPT ![id] = body], e)

\* POST /api/rules, after the guardrail gate has let the request through
create_rule(rs, e, id, body, F) ==
  LET r1 == [rs EXCEPT ![id] = body]
  IN IF body["status"] = "active"
     THEN ProvisionAndStore(r1, e, id, F)
     ELSE NoBackend(r1, e)

\* for key, value in update_data.items(): setattr(rule, key, value)
SetAttrs(rs, id, body) ==
  [rs EXCEPT ![id] = [k \in Keys |-> IF k \in DOMAIN body THEN body[k] ELSE @[k]]]

\* the provision that follows the deprovision d of a re-provisioning
ThenProvision(d, id, Fp) ==
  IF d.raised THEN d
  ELSE [ProvisionAndStore(d.rules, d.e, id, Fp) EXCEPT !.calls = d.calls \o @]

\* the backend calls of update_rule once the new values r1 are committed
UpdateBackend(old, new, keys, r1, e, id, Fd, Fp, stub) ==
  IF old # new
  THEN IF new = "active" /\ old # "active"
       THEN ProvisionAndStore(r1, e, id, Fp)
       ELSE IF old = "active" /\ new # "active"
       THEN DeprovisionOnly(r1, e, id, Fd, stub)
       ELSE NoBackend(r1, e)
  ELSE IF old = "active" /\ new = "active" /\ NeedsReprovision(keys)
  THEN ThenProvision(DeprovisionOnly(r1, e, id, Fd, stub), id, Fp)
  ELSE NoBackend(r1, e)

\* PUT /api/rules/{id} for a rule that exists
update_rule(rs, e, id, body, Fd, Fp, stub) ==
  UpdateBackend(rs[id]["status"],
                IF "status" \in DOMAIN body THEN body["status"] ELSE rs[id]["status"],
                DOMAIN body, SetAttrs(rs, id, body), e, id, Fd, Fp, stub)

\* DELETE /api/rules/{id} for a rule that exists
\* session.delete(rule); session.commit(), reached unless d raised
DeleteRow(d, id) == IF d.raised THEN d ELSE [d EXCEPT !.rules[id] = NoRule]

delete_rule(rs, e, id, Fd, stub) ==
  DeleteRow(IF DeleteDeprovisions(rs[id]["status"])
            THEN DeprovisionOnly(rs, e, id, Fd, stub)
            ELSE NoBackend(rs, e), id)

(***************************************************************************)
(* Health reconciliation cycle                                             *)
(***************************************************************************)
RECURSIVE Ascending(_)
Ascending(S) ==
  IF S = {} THEN <<>>
  ELSE LET m == CHOOSE x \in S : \A y \in S : x <= y
       IN <<m>> \o Ascending(S \ {m})

\* select(LogMetricRule).where(status == active)
ActiveRules(rs) == Ascending({i \in RuleIds : rs[i]["status"] = "active"})

Unhealthy_Yellow(health) == health \in {"red", "stopped", "yellow"}

\* status.health in (red, stopped)
Unhealthy(health) == health \in {"red", "stopped"}

GuardedCheck_NoTry(st) == st

\* try: ... except Exception: log.exception(...) around one rule's check;
\* the result tells whether the exception leaves the loop body
GuardedCheck(st) == [st EXCEPT !.raised = FALSE]

\* if errors_found: session.commit()
CommitNeeded(errors_found) == errors_found # <<>>

\* the loop body for rule id; raw is the way get_status ended
CheckRule(acc, id, raw, flip) ==
  [rules |-> IF flip THEN SetStatus(acc.rules, id, "error") ELSE acc.rules,
   errors_found |-> IF flip
                    THEN Append(acc.errors_found,
                           [rule_id |-> id, transform_health |-> raw.health,
                            error |-> raw.error])
                    ELSE acc.errors_found,
   calls |-> Append(acc.calls,
               <<"get_status", id, IF raw.raised THEN "raise" ELSE raw.health>>),
   raised |-> GuardedCheck(raw).raised]

Flips(raw) == ~raw.raised /\ Unhealthy(raw.health)

CheckStatus(acc, id, raw) == CheckRule(acc, id, raw, Flips(raw))

RECURSIVE CheckLoop(_, _, _, _)
CheckLoop(ids, e, mode, acc) ==
  IF ids = <<>> \/ acc.raised THEN acc
  ELSE CheckLoop(Tail(ids), e, mode,
         CheckStatus(acc, Head(ids),
           get_status(e, Head(ids),
                      IF mode[Head(ids)] = "error" THEN {"get_transform_stats"} ELSE {},
                      mode[Head(ids)] = "empty")))

\* r is the state the loop ends in
CycleCommit(rs, r, commit) ==
  [rules |-> IF commit THEN r.rules ELSE rs,
   written |-> IF commit
               THEN {r.errors_found[n].rule_id : n \in 1..Len(r.errors_found)}
               ELSE {},
   committed |-> commit,
   errors_found |-> r.errors_found,
   calls |-> r.calls,
   raised |-> r.raised]

CycleEnd(rs, r) == CycleCommit(rs, r, ~r.raised /\ CommitNeeded(r.errors_found))

_check_all_active_rules(rs, e, mode) ==
  CycleEnd(rs, CheckLoop(ActiveRules(rs), e, mode,
                         [rules |-> rs, errors_found |-> <<>>, calls |-> <<>>,
                          raised |-> FALSE]))

(***************************************************************************)
(* State machine                                                           *)
(***************************************************************************)

\* no pure function applied yet
NoFn == [name |-> "none", arg |-> <<>>, out |-> <<>>]

\* the monitor task as created by on_startup, before it is first scheduled;
\* dirty holds the errors_found of a cycle that has not committed yet
NoLoop == [pc |-> "init", running |-> FALSE, exit |-> "none", outcome |-> "none",
           prev |-> "none", tick |-> FALSE, dirty |-> <<>>]

InitStore ==
  /\ rules = [i \in RuleIds |-> NoRule]
  /\ job = [i \in RuleIds |-> "absent"]
  /\ idx = [i \in RuleIds |-> FALSE]
  /\ ilm = {}
  /\ monitor = [checked |-> FALSE, rules_in_error |-> <<>>]
  /\ last = [op |-> "none", id |-> 0, resp |-> "none", old |-> "none",
             want |-> "none", keys |-> {}, gate |-> "none", calls |-> <<>>,
             written |-> {}]
  /\ bk = [fn |-> "none", impl |-> "none", id |-> 0, pre |-> <<>>,
           trace |-> <<>>, raised |-> FALSE, success |-> FALSE, error |-> <<>>,
           health |-> "none"]
  /\ loop = NoLoop

Init == InitStore /\ fn = NoFn

SetEngine(e) ==
  /\ job' = e.job
  /\ idx' = e.idx
  /\ ilm' = e.ilm

NoReq == Req("none", 0, "none", "none", "none", {}, "none", <<>>, {})

\* last describes the step just taken when that step is observed
Observe(Log, op, id, resp, old, want, keys, gate, calls, written) ==
  IF Log THEN Req(op, id, resp, old, want, keys, gate, calls, written) ELSE NoReq

Fns(calls) == {calls[n][1] : n \in 1..Len(calls)}

\* POST /api/rules from the point where the guardrail gate has decided
CreateGated(Ids, body, gate, Faults, Log) ==
  IF gate = "rejected"
  THEN /\ last' = Observe(Log, "create", 0, "422", "none", body["status"], Keys,
                      gate, <<>>, {})
       /\ UNCHANGED <<rules, job, idx, ilm, monitor, bk, loop>>
  ELSE /\ NextId(rules) \in Ids
       /\ \E F \in (IF body["status"] = "active" THEN Faults ELSE {{}}) :
          \E r \in {create_rule(rules, Engine(job, idx, ilm), NextId(rules), body, F)} :
            /\ rules' = r.rules
            /\ SetEngine(r.e)
            /\ last' = Observe(Log, "create", NextId(rules), "201", "none",
                           body["status"], Keys, gate, r.calls, {NextId(rules)})
       /\ UNCHANGED <<monitor, bk, loop>>

\* POST /api/rules, the guardrail report left open
CreateRule(Ids, Bodies, Faults, Log) ==
  \E body \in Bodies, gate \in {"passed", "skipped", "rejected"} :
    CreateGated(Ids, body, gate, Faults, Log) /\ UNCHANGED fn

Failures_First(results) ==
  SelectSeq(results, LAMBDA r : ~r.passed /\ r.name = "dimension_limit")

\* failures = [r for r in report.results if not r.passed]
Failures(results) == SelectSeq(results, LAMBDA r : ~r.passed)

\* the "failures" list of the 422 detail
Detail(failures) ==
  [n \in 1..Len(failures) |->
     [guardrail |-> failures[n].name, explanation |-> failures[n].explanation,
      suggested_fix |-> failures[n].suggested_fix]]

\* if not report.all_passed and not skip_guardrails: raise HTTPException(422)
Gate(report, skip) ==
  IF ~report.all_passed /\ ~skip THEN "rejected"
  ELSE IF report.all_passed THEN "passed" ELSE "skipped"

\* what the request saw of its report, and the detail of its 422
GateOut(report, gate) ==
  [raised |-> report.raised, all_passed |-> report.all_passed,
   results |-> report.results,
   detail |-> IF gate = "rejected" THEN Detail(Failures(report.results)) ELSE <<>>]

\* POST /api/rules?skip_guardrails=..., the report computed by evaluate; draft
\* is what evaluate reads of the body and es what the cluster answers
PostRule(Ids, Bodies, Faults, Ds, Es) ==
  \E body \in Bodies, draft \in Ds, es \in Es, skip \in BOOLEAN :
    \E report \in {evaluate(draft, es)} :
      IF report.raised
      THEN /\ last' = Req("create", 0, "500", "none", body["status"], Keys,
                          "raised", <<>>, {})
           /\ fn' = [name |-> "create_rule", arg |-> <<draft, es, skip>>,
                     out |-> GateOut(report, "raised")]
           /\ UNCHANGED <<rules, job, idx, ilm, monitor, bk, loop>>
      ELSE \E gate \in {Gate(report, skip)} :
           /\ CreateGated(Ids, body, gate, Faults, TRUE)
           /\ fn' = [name |-> "create_rule", arg |-> <<draft, es, skip>>,
                     out |-> GateOut(report, gate)]

\* the compute objects a request can carry, written type or type:field
ComputeTexts ==
  {"count", "count:bytes", "sum", "sum:bytes", "avg", "avg:bytes",
   "distribution", "distribution:bytes", "median:bytes"}

\* class ComputeType(str, Enum)
ComputeType == {"count", "sum", "avg", "distribution"}

TypeOf(text) ==
  CASE text \in {"count", "count:bytes"} -> "count"
    [] text \in {"sum", "sum:bytes"} -> "sum"
    [] text \in {"avg", "avg:bytes"} -> "avg"
    [] text \in {"distribution", "distribution:bytes"} -> "distribution"
    [] OTHER -> "median"

\* field: Optional[str] = None
FieldOf(text) ==
  IF text \in {"count:bytes", "sum:bytes", "avg:bytes", "distribution:bytes",
               "median:bytes"}
  THEN "bytes" ELSE "None"

\* ComputeConfig parsed from a request: type must be a ComputeType, field is
\* optional for every type
ComputeConfig(text) ==
  [valid |-> TypeOf(text) \in ComputeType, type |-> TypeOf(text),
   field |-> FieldOf(text)]

\* POST /api/rules from the parsing of the body on: a body that does not
\* validate is answered 422 before create_rule runs
PostBody(Ids, Bodies, Faults, Ds, Es) ==
  \E body \in Bodies :
    IF ~ComputeConfig(body["compute"]).valid
    THEN /\ last' = Req("create", 0, "422", "none", body["status"], Keys,
                        "invalid", <<>>, {})
         /\ fn' = [name |-> "RuleCreate", arg |-> body["compute"], out |-> "ValidationError"]
         /\ UNCHANGED <<rules, job, idx, ilm, monitor, bk, loop>>
    ELSE PostRule(Ids, {body}, Faults, Ds, Es)

\* PUT /api/rules/{rule_id}
UpdateRule(Ids, Bodies, FaultsD, FaultsP, Stubs, Log) ==
  \E id \in Ids, body \in Bodies :
    LET want == IF "status" \in DOMAIN body THEN body["status"] ELSE "none"
    IN IF ~Exists(rules, id)
       THEN /\ last' = Observe(Log, "update", id, "404", "none", want, DOMAIN body,
                           "none", <<>>, {})
            /\ UNCHANGED <<rules, job, idx, ilm, monitor, bk, loop, fn>>
       ELSE \E plain \in {Fns(update_rule(rules, Engine(job, idx, ilm), id, body,
                                          {}, {}, FALSE).calls)} :
            \E stub \in (IF "deprovision" \in plain THEN Stubs ELSE {FALSE}) :
            \E Fd \in (IF "deprovision" \in plain /\ ~stub THEN FaultsD ELSE {{}}) :
            \E Fp \in (IF "provision" \in plain THEN FaultsP ELSE {{}}) :
            \E r \in {update_rule(rules, Engine(job, idx, ilm), id, body, Fd, Fp, stub)} :
              /\ rules' = r.rules
              /\ SetEngine(r.e)
              /\ last' = Observe(Log, "update", id, IF r.raised THEN "500" ELSE "200",
                             rules[id]["status"], want, DOMAIN body, "none",
                             r.calls, {id})
              /\ UNCHANGED <<monitor, bk, loop, fn>>

\* DELETE /api/rules/{rule_id}
DeleteRule(Ids, FaultsD, Stubs, Log) ==
  \E id \in Ids :
    IF ~Exists(rules, id)
    THEN /\ last' = Observe(Log, "delete", id, "404", "none", "none", {}, "none", <<>>, {})
         /\ UNCHANGED <<rules, job, idx, ilm, monitor, bk, loop, fn>>
    ELSE \E plain \in {Fns(delete_rule(rules, Engine(job, idx, ilm), id, {}, FALSE).calls)} :
         \E stub \in (IF "deprovision" \in plain THEN Stubs ELSE {FALSE}) :
         \E Fd \in (IF "deprovision" \in plain /\ ~stub THEN FaultsD ELSE {{}}) :
         \E r \in {delete_rule(rules, Engine(job, idx, ilm), id, Fd, stub)} :
           /\ rules' = r.rules
           /\ SetEngine(r.e)
           /\ last' = Observe(Log, "delete", id, IF r.raised THEN "500" ELSE "204",
                          rules[id]["status"], "none", {}, "none", r.calls,
                          IF r.raised THEN {} ELSE {id})
           /\ UNCHANGED <<monitor, bk, loop, fn>>

\* one call of _check_all_active_rules; mode is the way the engine answers
\* the stats request of each rule
Cycle(Modes) ==
  \E mode \in [RuleIds -> Modes \cup {"ok"}] :
    /\ \A i \in RuleIds : rules[i]["status"] # "active" => mode[i] = "ok"
    /\ \A i \in RuleIds : mode[i] = "empty" => job[i] = "absent"
    /\ \E r \in {_check_all_active_rules(rules, Engine(job, idx, ilm), mode)} :
         /\ rules' = r.rules
         /\ monitor' = IF r.raised THEN monitor
                       ELSE [checked |-> TRUE, rules_in_error |-> r.errors_found]
         /\ last' = Req("reconcile", 0,
                        IF r.raised THEN "raise"
                        ELSE IF r.committed THEN "commit" ELSE "nocommit",
                        "none", "none", {}, "none", r.calls, r.written)
    /\ UNCHANGED <<job, idx, ilm, bk, fn>>

\* _check_all_active_rules called on its own
Reconcile(Modes) == Cycle(Modes) /\ UNCHANGED loop

(***************************************************************************)
(* _health_monitor_loop: the background task                               *)
(***************************************************************************)

LoopExcept_Break(exc) == "done"

\* except asyncio.CancelledError: break / except Exception: log, next iteration
LoopExcept(exc) == IF exc = "CancelledError" THEN "done" ELSE "sleep"

\* the loop after the try statement was left with exc ("none": no exception)
AfterTry(l, exc) ==
  [l EXCEPT !.pc = IF exc = "none" THEN "sleep" ELSE LoopExcept(exc),
            !.exit = IF exc # "none" /\ LoopExcept(exc) = "done" THEN exc ELSE @]

\* the loop after a call of _check_all_active_rules that ended with exc
AfterCycle(l, exc) ==
  [AfterTry(l, exc) EXCEPT !.prev = l.outcome,
                           !.outcome = IF exc = "none" THEN "ok" ELSE "error",
                           !.tick = ~l.tick]

\* the task is scheduled for the first time
LoopStart ==
  /\ loop.pc = "init"
  /\ loop' = [loop EXCEPT !.pc = "sleep", !.running = TRUE]
  /\ UNCHANGED <<rules, job, idx, ilm, monitor, last, bk, fn>>

\* await asyncio.sleep(HEALTH_CHECK_INTERVAL) returns
LoopWake ==
  /\ loop.pc = "sleep"
  /\ loop' = [loop EXCEPT !.pc = "check"]
  /\ UNCHANGED <<rules, job, idx, ilm, monitor, last, bk, fn>>

\* the task is cancelled while it sleeps
LoopCancel ==
  /\ loop.pc = "sleep"
  /\ loop' = AfterTry(loop, "CancelledError")
  /\ UNCHANGED <<rules, job, idx, ilm, monitor, last, bk, fn>>

\* _check_all_active_rules() inside the try statement of the loop; the store
\* may fail the select or the commit, which raises out of the call
LoopCheck(Modes) ==
  /\ loop.pc = "check"
  /\ \/ /\ Cycle(Modes)
        /\ loop' = AfterCycle(loop, IF last'.resp = "raise" THEN "Exception" ELSE "none")
     \/ /\ last' = Req("reconcile", 0, "raise", "none", "none", {}, "none", <<>>, {})
        /\ loop' = AfterCycle(loop, "Exception")
        /\ UNCHANGED <<rules, job, idx, ilm, monitor, bk, fn>>

\* the rule ids of the entries of errors_found
Flipped(errors_found) == {errors_found[n].rule_id : n \in 1..Len(errors_found)}

\* _check_all_active_rules up to its commit: the select and the loop over
\* the rules selected, the rules marked error kept in the session
CycleScan(Modes) ==
  /\ loop.dirty = <<>>
  /\ \E mode \in [RuleIds -> Modes \cup {"ok"}] :
       /\ \A i \in RuleIds : rules[i]["status"] # "active" => mode[i] = "ok"
       /\ \E r \in {CheckLoop(ActiveRules(rules), Engine(job, idx, ilm), mode,
                               [rules |-> rules, errors_found |-> <<>>,
                                calls |-> <<>>, raised |-> FALSE])} :
            /\ loop' = [loop EXCEPT !.dirty = <<r.errors_found>>]
            /\ last' = Req("scan", 0, "none", "none", "none", {}, "none", r.calls, {})
  /\ UNCHANGED <<rules, job, idx, ilm, monitor, bk, fn>>

\* UPDATE ... SET status = 'error' WHERE id = ... for the rules of ids
FlushWrite(rs, ids) ==
  [i \in RuleIds |-> IF i \in ids THEN [rs[i] EXCEPT !["status"] = "error"] ELSE rs[i]]

\* the commit of _check_all_active_rules and what follows it; the UPDATE of
\* a row that was deleted meanwhile matches no row and the commit raises
CycleFlush ==
  /\ loop.dirty # <<>>
  /\ \E ids \in {Flipped(loop.dirty[1])} :
       IF \E i \in ids : ~Exists(rules, i)
       THEN /\ last' = Req("reconcile", 0, "raise", "none", "none", {}, "none", <<>>, {})
            /\ UNCHANGED <<rules, monitor>>
       ELSE /\ rules' = FlushWrite(rules, ids)
            /\ monitor' = [checked |-> TRUE, rules_in_error |-> loop.dirty[1]]
            /\ last' = Req("reconcile", 0, IF ids # {} THEN "commit" ELSE "nocommit",
                           "none", "none", {}, "none", <<>>, ids)
  /\ loop' = [loop EXCEPT !.dirty = <<>>]
  /\ UNCHANGED <<job, idx, ilm, bk, fn>>

\* the engine: a transform that exists changes its live state on its own
EngineStep(Ids, States, Log) ==
  \E id \in Ids, s \in States :
    /\ job[id] \notin {"absent", s}
    /\ job' = [job EXCEPT ![id] = s]
    /\ last' = Observe(Log, "engine", id, "none", "none", "none", {}, "none", <<>>, {})
    /\ UNCHANGED <<rules, idx, ilm, monitor, bk, loop, fn>>

(***************************************************************************)
(* Direct calls of the backend interface, recorded with their engine calls *)
(***************************************************************************)

NoCall == [fn |-> "none", impl |-> "none", id |-> 0, pre |-> <<>>,
           trace |-> <<>>, raised |-> FALSE, success |-> FALSE, error |-> NoExc,
           health |-> "none"]

Provision(Ids, Faults) ==
  \E id \in Ids, retention \in Retentions, F \in Faults :
  \E r \in {provision(Engine(job, idx, ilm), id, retention, F)} :
    /\ SetEngine(r.e)
    /\ bk' = [fn |-> "provision", impl |-> "elastic", id |-> id,
              pre |-> <<job[id], idx[id]>>, trace |-> r.trace,
              raised |-> r.raised, success |-> r.success, error |-> r.error,
              health |-> "none"]
    /\ UNCHANGED <<rules, monitor, last, loop, fn>>

Deprovision(Ids, Faults, Stubs) ==
  \E id \in Ids, stub \in Stubs :
  \E F \in (IF stub THEN {{}} ELSE Faults) :
  \E r \in {BackendDeprovision(Engine(job, idx, ilm), id, F, stub)} :
    /\ SetEngine(r.e)
    /\ bk' = [fn |-> "deprovision", impl |-> IF stub THEN "stub" ELSE "elastic",
              id |-> id, pre |-> <<job[id], idx[id]>>, trace |-> r.trace,
              raised |-> r.raised, success |-> FALSE, error |-> NoExc,
              health |-> "none"]
    /\ UNCHANGED <<rules, monitor, last, loop, fn>>

\* the engine's reply to the stats request: an error, a not-found error or an
\* empty transforms list for a job that does not exist, the job's entry otherwise
StatsReply(state, mode) ==
  IF mode = "error" THEN "error"
  ELSE IF state # "absent" THEN "ok"
  ELSE IF mode = "empty" THEN "empty" ELSE "not_found"

GetStatus(Ids, Modes) ==
  \E id \in Ids, mode \in Modes :
    /\ mode = "empty" => job[id] = "absent"
    /\ \E r \in {get_status(Engine(job, idx, ilm), id,
                             IF mode = "error" THEN {"get_transform_stats"} ELSE {},
                             mode = "empty")} :
         bk' = [fn |-> "get_status", impl |-> "elastic", id |-> id,
                pre |-> <<job[id], idx[id]>>,
                trace |-> <<<<"get_transform_stats", StatsReply(job[id], mode)>>>>,
                raised |-> r.raised, success |-> FALSE, error |-> r.error,
                health |-> r.health]
    /\ UNCHANGED <<rules, job, idx, ilm, monitor, last, loop, fn>>

EngineChange(Ids, States) ==
  \E id \in Ids, s \in States :
    /\ job[id] \notin {"absent", s}
    /\ job' = [job EXCEPT ![id] = s]
    /\ bk' = NoCall
    /\ UNCHANGED <<rules, idx, ilm, monitor, last, loop, fn>>

(***************************************************************************)
(* Spec: the lifecycle of one rule through the API, with engine faults     *)
(***************************************************************************)
\* one engine rejection per backend call at most: a provisioning step, or
\* the index deletion of the teardown
ApiFaultsP == {{}, {"create_index"}, {"start_transform"}}

ApiFaultsD == {{}, {"delete_index"}}

ApiCreate == {b \in RuleCreate : b.group_by = "sync30s"}

ApiUpdate == {b \in RuleUpdate : "group_by" \in DOMAIN b => b["group_by"] = "sync30s"}

Next ==
  \/ CreateRule({1}, ApiCreate, ApiFaultsP, TRUE)
  \/ UpdateRule({1}, ApiUpdate, ApiFaultsD, ApiFaultsP, BOOLEAN, TRUE)
  \/ DeleteRule({1}, ApiFaultsD, BOOLEAN, TRUE)

Spec == Init /\ [][Next]_vars

(***************************************************************************)
(* SpecBackend: provision / deprovision against the engine                 *)
(***************************************************************************)

BackendStates == {"started", "stopped", "failed"}

NextBackend ==
  \/ Provision(RuleIds, ProvisionFaults)
  \/ Deprovision(RuleIds, DeprovisionFaults, {FALSE})
  \/ EngineChange(RuleIds, BackendStates)
  \/ GetStatus(RuleIds, {"ok", "error", "empty"})

SpecBackend == Init /\ [][NextBackend]_vars

(***************************************************************************)
(* SpecCycle: two rules watched by the health reconciliation cycle         *)
(***************************************************************************)

StatusOnly == {b \in RuleUpdate : DOMAIN b = {"status"}}

DefaultCreate == {b \in RuleCreate : b.name = "n1" /\ b.group_by = "sync30s"}

CycleStates == {"started", "stopping", "stopped", "failed", "absent"}

NextCycle ==
  \/ CreateRule(RuleIds, DefaultCreate, {{}}, FALSE)
  \/ UpdateRule(RuleIds, StatusOnly, {{}}, {{}}, {FALSE}, FALSE)
  \/ DeleteRule(RuleIds, {{}}, {FALSE}, FALSE)
  \/ EngineStep(RuleIds, CycleStates, FALSE)
  \/ Reconcile({"ok", "error", "empty"})

SpecCycle == Init /\ [][NextCycle]_vars

(***************************************************************************)
(* SpecLoop: the monitor task beside the requests on one rule              *)
(***************************************************************************)

LoopStates == {"started", "stopped"}

NextLoop ==
  \/ CreateRule({1}, DefaultCreate, {{}}, FALSE)
  \/ UpdateRule({1}, StatusOnly, {{}}, {{}}, {FALSE}, FALSE)
  \/ EngineStep({1}, LoopStates, FALSE)
  \/ LoopStart
  \/ LoopWake
  \/ LoopCancel
  \/ LoopCheck({"ok", "error"})

\* the event loop runs a task that is ready: the first scheduling, the end of
\* the sleep and the synchronous cycle all happen once they can
SpecLoop ==
  /\ Init /\ [][NextLoop]_vars
  /\ WF_vars(LoopStart) /\ WF_vars(LoopWake) /\ WF_vars(LoopCheck({"ok", "error"}))

(***************************************************************************)
(* SpecRace: requests served by worker threads while a cycle is under way  *)
(***************************************************************************)

NextRace ==
  \/ CreateRule(RuleIds, DefaultCreate, {{}}, FALSE)
  \/ UpdateRule(RuleIds, StatusOnly, {{}}, {{}}, {FALSE}, FALSE)
  \/ DeleteRule(RuleIds, {{}}, {FALSE}, FALSE)
  \/ EngineStep(RuleIds, LoopStates, FALSE)
  \/ CycleScan({"ok", "error"})
  \/ CycleFlush

SpecRace == Init /\ [][NextRace]_vars

(***************************************************************************)
(* SpecStatus: the BackendStatus built from one stats entry                *)
(***************************************************************************)

Pending(name, args) == {[name |-> name, arg |-> a, out |-> <<>>] : a \in args}

InitStatus == InitStore /\ fn \in Pending("get_status", TransformEntries)

ApplyStatus ==
  /\ fn.name = "get_status" /\ fn.out = <<>>
  /\ fn' = [fn EXCEPT !.out = StatusOfTransform(fn.arg)]
  /\ UNCHANGED <<rules, job, idx, ilm, monitor, last, bk, loop>>

SpecStatus == InitStatus /\ [][ApplyStatus]_vars

(***************************************************************************)
(* SpecGuard: evaluate applied to a draft rule                             *)
(***************************************************************************)

InitGuard == InitStore /\ fn \in Pending("evaluate", Drafts \X EsAnswers)

ApplyEvaluate ==
  /\ fn.name = "evaluate" /\ fn.out = <<>>
  /\ fn' = [fn EXCEPT !.out = evaluate(fn.arg[1], fn.arg[2])]
  /\ UNCHANGED <<rules, job, idx, ilm, monitor, last, bk, loop>>

SpecGuard == InitGuard /\ [][ApplyEvaluate]_vars

(***************************************************************************)
(* SpecGate: creation behind the guardrail report                          *)
(***************************************************************************)

GateBodies == {b \in DefaultCreate : b.status \in {"draft", "active"}}

GateDrafts ==
  {d \in Drafts : /\ d.index_pattern = <<"app-logs", "*">>
                    /\ d.time_bucket = <<1, "d">> /\ d.retention_days = 1
                    /\ (Len(d.dimensions) <= 1 \/ Len(d.dimensions) >= MAX_DIMENSIONS)}

GateEs ==
  {e \in EsAnswers : /\ e.card_fail = {"service", "host"} /\ e.cardinality = 2
                       /\ e.doc_count = 1000}

NextGate ==
  \/ PostRule(RuleIds, GateBodies, {{}}, GateDrafts, GateEs)
  \/ DeleteRule(RuleIds, {{}}, {FALSE}, TRUE)

SpecGate == Init /\ [][NextGate]_vars

(***************************************************************************)
(* elastic_backend / prometheus_exporter: what provision sends to the      *)
(* engine for a rule, and the document field the exporter reads            *)
(***************************************************************************)

\* stored rules as provision reads them; a time string is <<number, unit>>
\* and an unset frequency is <<>>
JobRules ==
  [compute : {c \in ComputeTexts : ComputeConfig(c).valid},
   time_bucket : {<<10, "s">>, <<1, "m">>, <<5, "m">>},
   frequency : {<<>>, <<15, "m">>},
   sync_delay : {<<30, "s">>, <<60, "s">>, <<5, "m">>},
   dimensions : {<<>>, <<"service">>}]

\* the key of the pivot aggregation; f"sum_{compute.field}" is <<"sum_", field>>
_build_aggregations(compute) ==
  CASE compute.type = "count" -> <<"doc_count">>
    [] compute.type = "sum" -> <<"sum_", compute.field>>
    [] compute.type = "avg" -> <<"avg_", compute.field>>
    [] compute.type = "distribution" -> <<"pct_", compute.field>>

\* the metric property of the destination index mapping
MetricProperty(compute) ==
  CASE compute.type = "count" -> <<"doc_count">>
    [] compute.type = "sum" -> <<"sum_", compute.field>>
    [] compute.type = "avg" -> <<"avg_", compute.field>>
    [] compute.type = "distribution" -> <<"pct_", compute.field>>

\* the field of a metrics document the exporter reads the value from
ExportedField(compute) ==
  CASE compute.type = "count" -> <<"event_count">>
    [] compute.type = "sum" -> <<"sum_", compute.field>>
    [] compute.type = "avg" -> <<"avg_", compute.field>>
    [] compute.type = "distribution" -> <<"pct_", compute.field>>

\* frequency: the explicit value, else the time bucket, raised to 1m
Frequency(explicit, bucket, bucket_seconds) ==
  IF explicit # <<>> THEN explicit
  ELSE IF bucket_seconds < 60 THEN <<1, "m">> ELSE bucket

_build_transform_body(rule) ==
  [fixed_interval |-> rule.time_bucket,
   terms |-> rule.dimensions,
   aggregations |-> _build_aggregations(ComputeConfig(rule.compute)),
   frequency |-> Frequency(rule.frequency, rule.time_bucket,
                           _parse_time_bucket_seconds(rule.time_bucket)),
   delay |-> <<60, "s">>]

\* the bodies provision sends for a rule, next to the exporter's field
JobBodies(rule) ==
  [transform |-> _build_transform_body(rule),
   property |-> MetricProperty(ComputeConfig(rule.compute)),
   exported |-> ExportedField(ComputeConfig(rule.compute))]

InitJob == InitStore /\ fn \in Pending("provision", JobRules)

ApplyJob ==
  /\ fn.name = "provision" /\ fn.out = <<>>
  /\ fn' = [fn EXCEPT !.out = JobBodies(fn.arg)]
  /\ UNCHANGED <<rules, job, idx, ilm, monitor, last, bk, loop>>

SpecJob == InitJob /\ [][ApplyJob]_vars

(***************************************************************************)
(* scoring: the suitability score of a panel                               *)
(***************************************************************************)

NUMERIC_AGG_TYPES ==
  {"count", "sum", "avg", "min", "max", "percentiles", "cardinality",
   "value_count", "median_absolute_deviation"}

\* PanelAnalysis, the fields score_panel reads
Panels ==
  [has_date_histogram : BOOLEAN,
   metrics : {<<>>, <<"count">>, <<"sum", "percentiles">>, <<"count", "top_hits">>},
   has_raw_docs : BOOLEAN,
   group_by_fields : {<<>>, <<"service">>, <<"service", "message">>}]

\* field_types: None (given FALSE), or a dict, by the names it maps to an
\* aggregatable type (agg) and to a type that is not (text)
FieldTypes ==
  {[given |-> FALSE, agg |-> {}, text |-> {}]}
    \cup {m \in [given : {TRUE}, agg : SUBSET {"service", "message"},
                  text : SUBSET {"service", "message"}] : m.agg \cap m.text = {}}

\* dashboard_time_from: <<>> is None or "", else <<prefix, number, unit>> with
\* number <<>> where int() raises
TimeFroms ==
  {<<>>, <<"now-", <<7>>, "d">>, <<"now-", <<6>>, "d">>, <<"now-", <<1>>, "w">>,
   <<"now-", <<1>>, "M">>, <<"now-", <<1>>, "y">>, <<"now-", <<200>>, "h">>,
   <<"now-", <<15>>, "m">>, <<"now-", <<7>>, "s">>, <<"now-", <<>>, "d">>,
   <<"", <<7>>, "d">>}

\* refresh_interval_ms: <<>> is None
RefreshIntervals == {<<>>, <<0>>, <<-1>>, <<30000>>}

ScoreBreakdown(signal, points, max_points, explanation) ==
  [signal |-> signal, points |-> points, max_points |-> max_points,
   explanation |-> explanation]

_score_date_histogram(panel) ==
  ScoreBreakdown("date_histogram", IF panel.has_date_histogram THEN 25 ELSE 0, 25,
                 Text(IF panel.has_date_histogram THEN "uses date_histogram"
                      ELSE "no date_histogram", <<>>, <<>>))

NonNumeric(metrics) == SelectSeq(metrics, LAMBDA m : m \notin NUMERIC_AGG_TYPES)

NumericResult(metrics, non_num) ==
  IF non_num = <<>>
  THEN ScoreBreakdown("numeric_aggs", 20, 20, Text("all numeric", <<>>, metrics))
  ELSE ScoreBreakdown("numeric_aggs", 0, 20, Text("non-numeric", <<>>, non_num))

_score_numeric_aggs(panel) ==
  IF panel.metrics # <<>> THEN NumericResult(panel.metrics, NonNumeric(panel.metrics))
  ELSE IF ~panel.has_raw_docs
  THEN ScoreBreakdown("numeric_aggs", 10, 20, Text("may default to count", <<>>, <<>>))
  ELSE ScoreBreakdown("numeric_aggs", 0, 20, Text("raw documents", <<>>, <<>>))

_score_no_raw_docs_Always(panel) ==
  ScoreBreakdown("no_raw_docs", 15, 15,
                 Text(IF ~panel.has_raw_docs THEN "no raw log lines"
                      ELSE "cannot be converted", <<>>, <<>>))

_score_no_raw_docs(panel) ==
  ScoreBreakdown("no_raw_docs", IF panel.has_raw_docs THEN 0 ELSE 15, 15,
                 Text(IF ~panel.has_raw_docs THEN "no raw log lines"
                      ELSE "cannot be converted", <<>>, <<>>))

\* [f for f in group_by_fields if f not in field_types or not aggregatable]
NonAgg(fields, field_types) == SelectSeq(fields, LAMBDA f : f \notin field_types.agg)

AggResult(fields, non_agg) ==
  IF non_agg = <<>>
  THEN ScoreBreakdown("aggregatable_dimensions", 10, 10,
                      Text("all aggregatable", <<>>, fields))
  ELSE ScoreBreakdown("aggregatable_dimensions", 0, 10,
                      Text("non-aggregatable", <<>>, non_agg))

\* a dict is truthy when it is given and not empty
_score_aggregatable_dimensions(panel, field_types) ==
  IF panel.group_by_fields # <<>> /\ field_types.given
       /\ field_types.agg \cup field_types.text # {}
  THEN AggResult(panel.group_by_fields, NonAgg(panel.group_by_fields, field_types))
  ELSE IF panel.group_by_fields # <<>>
  THEN ScoreBreakdown("aggregatable_dimensions", 5, 10,
                      Text("types not verified", <<>>, panel.group_by_fields))
  ELSE ScoreBreakdown("aggregatable_dimensions", 5, 10,
                      Text("no dimensions", <<>>, <<>>))

\* int(suffix[:-1]) done, n the number; <<>> is None
LookbackDays(n, unit) ==
  CASE unit = "d" -> <<n>>
    [] unit = "w" -> <<n * 7>>
    [] unit = "M" -> <<n * 30>>
    [] unit = "y" -> <<n * 365>>
    [] unit = "h" -> <<IF n \div 24 > 1 THEN n \div 24 ELSE 1>>
    [] unit = "m" -> <<IF n \div 1440 > 1 THEN n \div 1440 ELSE 1>>
    [] OTHER -> <<>>

_parse_lookback_days(time_from) ==
  IF time_from[1] # "now-" THEN <<>>
  ELSE IF time_from[3] \notin {"d", "w", "M", "y", "h", "m"} THEN <<>>
  ELSE IF time_from[2] = <<>> THEN <<>>
  ELSE LookbackDays(time_from[2][1], time_from[3])

LookbackResult_Week(days) ==
  IF days = <<>>
  THEN ScoreBreakdown("lookback_window", 0, 15, Text("could not parse", <<>>, <<>>))
  ELSE IF days[1] > 7
  THEN ScoreBreakdown("lookback_window", 15, 15, Text("long lookback", days, <<>>))
  ELSE ScoreBreakdown("lookback_window", 5, 15, Text("shorter window", days, <<>>))

LookbackResult(days) ==
  IF days = <<>>
  THEN ScoreBreakdown("lookback_window", 0, 15, Text("could not parse", <<>>, <<>>))
  ELSE IF days[1] >= 7
  THEN ScoreBreakdown("lookback_window", 15, 15, Text("long lookback", days, <<>>))
  ELSE ScoreBreakdown("lookback_window", 5, 15, Text("shorter window", days, <<>>))

_score_lookback(dashboard_time_from) ==
  IF dashboard_time_from = <<>>
  THEN ScoreBreakdown("lookback_window", 0, 15, Text("no lookback", <<>>, <<>>))
  ELSE LookbackResult(_parse_lookback_days(dashboard_time_from))

_score_auto_refresh(refresh_interval_ms) ==
  IF refresh_interval_ms # <<>> /\ refresh_interval_ms[1] > 0
  THEN ScoreBreakdown("auto_refresh", 10, 10,
                      Text("enabled", <<refresh_interval_ms[1] \div 1000>>, <<>>))
  ELSE ScoreBreakdown("auto_refresh", 0, 10, Text("not enabled", <<>>, <<>>))

_generate_recommendation(total, panel) ==
  IF panel.has_raw_docs THEN Text("cannot be converted", <<>>, <<>>)
  ELSE IF total >= 70 THEN Text("Strong candidate", <<total>>, <<>>)
  ELSE IF total >= 40 THEN Text("Moderate candidate", <<total>>, <<>>)
  ELSE Text("Weak candidate", <<total>>, <<>>)

RECURSIVE SumPoints(_)
SumPoints(breakdown) ==
  IF breakdown = <<>> THEN 0 ELSE Head(breakdown).points + SumPoints(Tail(breakdown))

RECURSIVE SumMax(_)
SumMax(breakdown) ==
  IF breakdown = <<>> THEN 0 ELSE Head(breakdown).max_points + SumMax(Tail(breakdown))

SuitabilityScore(total, breakdown, panel) ==
  [total |-> total, max_total |-> SumMax(breakdown), breakdown |-> breakdown,
   recommendation_text |-> _generate_recommendation(total, panel)]

Scored(breakdown, panel) == SuitabilityScore(SumPoints(breakdown), breakdown, panel)

score_panel(panel, field_types, dashboard_time_from, refresh_interval_ms) ==
  Scored(<<_score_date_histogram(panel), _score_numeric_aggs(panel),
           _score_no_raw_docs(panel),
           _score_aggregatable_dimensions(panel, field_types),
           _score_lookback(dashboard_time_from),
           _score_auto_refresh(refresh_interval_ms)>>, panel)

InitScore ==
  InitStore /\ fn \in Pending("score_panel",
                              Panels \X FieldTypes \X TimeFroms \X RefreshIntervals)

ApplyScore ==
  /\ fn.name = "score_panel" /\ fn.out = <<>>
  /\ fn' = [fn EXCEPT !.out = score_panel(fn.arg[1], fn.arg[2], fn.arg[3], fn.arg[4])]
  /\ UNCHANGED <<rules, job, idx, ilm, monitor, last, bk, loop>>

SpecScore == InitScore /\ [][ApplyScore]_vars

(***************************************************************************)
(* SpecCompute: creation of rules of every compute type                    *)
(***************************************************************************)

ComputeBodies == {[b EXCEPT !["compute"] = c] : b \in GateBodies, c \in ComputeTexts}

ComputeDrafts == {d \in GateDrafts : d.dimensions = <<>>}

ComputeEs == {e \in GateEs : e.store_size_bytes = 1000000}

NextCompute ==
  \/ PostBody(RuleIds, ComputeBodies, {{}}, ComputeDrafts, ComputeEs)
  \/ DeleteRule(RuleIds, {{}}, {FALSE}, TRUE)

SpecCompute == Init /\ [][NextCompute]_vars

(***************************************************************************)
(* Properties                                                              *)
(***************************************************************************)

\* C1: whenever a provision call made for a rule by create or update returns
\* failure, the rule's stored status is error when the request completes
C1_ProvisionFailureStoresError ==
  (last.op \in {"create", "update"}
     /\ \E n \in 1..Len(last.calls) : last.calls[n] = <<"provision", last.id, "fail">>)
  => rules[last.id]["status"] = "error"

C1_Witness ==
  /\ last.op = "update"
  /\ last.old = "active"
  /\ last.want = "none"
  /\ last.calls = <<<<"deprovision", 1, "ok">>, <<"provision", 1, "fail">>>>
  /\ rules[1]["status"] = "error"

\* C2: an update that sets group_by, compute or source on a rule that is
\* active and is not asked to leave active calls deprovision once and then
\* provision once for that rule, in that order, and nothing else
C2_ReprovisionOrder ==
  (last.op = "update" /\ last.resp = "200" /\ last.old = "active"
     /\ last.want \in {"none", "active"}
     /\ last.keys \cap {"group_by", "compute", "source"} # {})
  => /\ Len(last.calls) = 2
     /\ last.calls[1][1] = "deprovision" /\ last.calls[1][2] = last.id
     /\ last.calls[2][1] = "provision" /\ last.calls[2][2] = last.id

C2_Witness ==
  /\ last.op = "update"
  /\ last.old = "active"
  /\ last.keys = {"source"}
  /\ last.calls = <<<<"deprovision", 1, "ok">>, <<"provision", 1, "ok">>>>
  /\ rules[1]["status"] = "active"
  /\ job[1] = "started"

\* C3: an update of an active rule that sets only name and/or owner calls
\* neither deprovision nor provision, leaves the status active and leaves the
\* engine's jobs, indices and policies as they were
C3_MetadataOnlyNoReprovision ==
  [][(last'.op = "update" /\ last'.resp = "200" /\ last'.old = "active"
        /\ last'.keys # {} /\ last'.keys \subseteq {"name", "owner"})
     => /\ last'.calls = <<>>
        /\ rules'[last'.id]["status"] = "active"
        /\ job' = job /\ idx' = idx /\ ilm' = ilm]_vars

C3_Witness ==
  /\ last.op = "update"
  /\ last.old = "active"
  /\ last.keys = {"name", "owner"}
  /\ last.calls = <<>>
  /\ rules[1]["status"] = "active"
  /\ rules[1]["name"] = "n2"
  /\ job[1] = "started"

\* C4 as stated: a request that takes a rule into active from a non-active
\* status calls provision exactly once, and a create or update in which the
\* rule does not become active calls provision zero times
C4_Original ==
  last.op \in {"create", "update"} =>
    LET provisions == Cardinality({n \in 1..Len(last.calls) : last.calls[n][1] = "provision"})
        becomes == last.resp \in {"200", "201"} /\ last.want = "active" /\ last.old # "active"
    IN provisions = IF becomes THEN 1 ELSE 0

\* C4 amended: a request that takes a rule into active from a non-active status
\* calls provision exactly once; a create or update in which the rule neither
\* becomes active nor is an active rule staying active whose group_by, compute
\* or source is set calls provision zero times
C4_ProvisionOnActivation ==
  last.op \in {"create", "update"} =>
    LET provisions == Cardinality({n \in 1..Len(last.calls) : last.calls[n][1] = "provision"})
        becomes == last.resp \in {"200", "201"} /\ last.want = "active" /\ last.old # "active"
        reconfigured == /\ last.op = "update" /\ last.resp = "200" /\ last.old = "active"
                        /\ last.want \in {"none", "active"}
                        /\ last.keys \cap {"group_by", "compute", "source"} # {}
    IN /\ becomes => provisions = 1
       /\ (~becomes /\ ~reconfigured) => provisions = 0

C4_Witness ==
  /\ last.op = "update"
  /\ last.old = "draft"
  /\ last.want = "active"
  /\ last.calls = <<<<"provision", 1, "ok">>>>
  /\ rules[1]["status"] = "active"

\* C5: provision on a rule whose job is running and whose destination index
\* exists, with no engine rejection other than "already exists", leaves the
\* job running and the index in place
C5_ProvisionIdempotent ==
  (bk.fn = "provision" /\ bk.pre = <<"started", TRUE>>
     /\ \A n \in 1..Len(bk.trace) : bk.trace[n][2] \in {"ok", "exists"})
  => (job[bk.id] = "started" /\ idx[bk.id])

\* C6: provision never raises; when a provisioning step fails it then attempts
\* stop job, delete job and delete index, all three whatever their outcomes,
\* returns success = false with the failing step's error text, and if the
\* engine accepted the three cleanup calls neither job nor index is left
C6_FailedProvisionCleansUp ==
  bk.fn = "provision" =>
    /\ ~bk.raised
    /\ ~bk.success =>
         LET n == Len(bk.trace)
         IN /\ n >= 4
            /\ bk.trace[n - 2][1] = "stop_transform"
            /\ bk.trace[n - 1][1] = "delete_transform"
            /\ bk.trace[n][1] = "delete_index"
            /\ bk.trace[n - 3][1] \in ProvisionOps
            /\ bk.trace[n - 3][2] # "ok"
            /\ bk.error = bk.trace[n - 3]
            /\ (\A m \in (n - 2)..n : bk.trace[m][2] \in {"ok", "not_found"})
                 => (job[bk.id] = "absent" /\ ~idx[bk.id])

C6_Witness ==
  /\ bk.fn = "provision"
  /\ ~bk.success
  /\ bk.error = <<"start_transform", "error">>
  /\ Len(bk.trace) = 7
  /\ bk.trace[5] = <<"stop_transform", "error">>
  /\ bk.trace[6] = <<"delete_transform", "ok">>
  /\ bk.trace[7] = <<"delete_index", "ok">>

\* C7: an update that takes an active rule to paused, draft or error, and a
\* delete of an active rule, call deprovision exactly once, and the new status
\* is stored (the rule is removed) also when deprovision raised
C7_DeactivationNotBlocked ==
  LET deprovisions == Cardinality({n \in 1..Len(last.calls) : last.calls[n][1] = "deprovision"})
  IN /\ (last.op = "update" /\ last.old = "active"
           /\ last.want \in {"paused", "draft", "error"})
        => (deprovisions = 1 /\ rules[last.id]["status"] = last.want)
     /\ (last.op = "delete" /\ last.old = "active")
        => (deprovisions = 1 /\ ~Exists(rules, last.id))

C7_Witness ==
  /\ last.op = "delete"
  /\ last.old = "active"
  /\ last.calls = <<<<"deprovision", 1, "raise">>>>
  /\ ~Exists(rules, 1)

\* C8: deprovision of the Elastic backend never raises, attempts stop job,
\* delete job, delete index in that order whatever each outcome, and changes
\* nothing in the engine when neither the job nor the index exists
C8_DeprovisionNeverRaises ==
  [][(bk'.fn = "deprovision" /\ bk'.impl = "elastic")
     => /\ ~bk'.raised
        /\ Len(bk'.trace) = 3
        /\ bk'.trace[1][1] = "stop_transform"
        /\ bk'.trace[2][1] = "delete_transform"
        /\ bk'.trace[3][1] = "delete_index"
        /\ bk'.pre = <<"absent", FALSE>> => (job' = job /\ idx' = idx /\ ilm' = ilm)]_vars

C8_Witness ==
  /\ bk.fn = "deprovision"
  /\ bk.pre = <<"absent", FALSE>>
  /\ bk.trace = <<<<"stop_transform", "not_found">>, <<"delete_transform", "not_found">>,
                  <<"delete_index", "not_found">>>>
  /\ \E i \in RuleIds : job[i] = "started" /\ idx[i]

\* C9: a reconciliation cycle queries active rules only; it changes a rule
\* only by storing error for an active rule whose health was red or stopped,
\* listing it with that health; every such rule is stored as error; and a
\* cycle that found no such rule commits nothing
C9_ReconcileOnlyFlipsUnhealthy ==
  [][last'.op = "reconcile" =>
      LET calls == last'.calls
          Bad(i) == \E n \in 1..Len(calls) :
                      calls[n][2] = i /\ calls[n][3] \in {"red", "stopped"}
      IN /\ \A n \in 1..Len(calls) : rules[calls[n][2]]["status"] = "active"
         /\ \A i \in RuleIds :
              /\ rules'[i] # rules[i] =>
                   /\ rules[i]["status"] = "active"
                   /\ Bad(i)
                   /\ rules'[i] = [rules[i] EXCEPT !["status"] = "error"]
                   /\ \E k \in 1..Len(monitor'.rules_in_error) :
                        /\ monitor'.rules_in_error[k].rule_id = i
                        /\ <<"get_status", i, monitor'.rules_in_error[k].transform_health>>
                             \in {calls[n] : n \in 1..Len(calls)}
              /\ Bad(i) => rules'[i]["status"] = "error"
         /\ (~ \E i \in RuleIds : Bad(i))
              => (last'.resp = "nocommit" /\ last'.written = {} /\ rules' = rules)]_vars

C9_Witness ==
  /\ last.op = "reconcile"
  /\ last.calls = <<<<"get_status", 1, "yellow">>, <<"get_status", 2, "stopped">>>>
  /\ rules[1]["status"] = "active"
  /\ rules[2]["status"] = "error"
  /\ last.written = {2}

\* C10: when the status query of active rule A raises within a cycle, the
\* cycle does not raise, A is left as it was, and every other active rule is
\* still queried and is stored as error exactly if its health was red or stopped
C10_FailureIsolatedPerRule ==
  [][last'.op = "reconcile" =>
      LET calls == last'.calls
          Raised(i) == <<"get_status", i, "raise">> \in {calls[n] : n \in 1..Len(calls)}
          Bad(i) == \E n \in 1..Len(calls) :
                      calls[n][2] = i /\ calls[n][3] \in {"red", "stopped"}
      IN \A a \in RuleIds :
           Raised(a) =>
             /\ last'.resp # "raise"
             /\ rules'[a] = rules[a]
             /\ \A b \in RuleIds \ {a} :
                  rules[b]["status"] = "active" =>
                    /\ \E n \in 1..Len(calls) : calls[n][2] = b
                    /\ rules'[b]["status"] = "error" <=> Bad(b)]_vars

C10_Witness ==
  /\ last.op = "reconcile"
  /\ last.calls = <<<<"get_status", 1, "raise">>, <<"get_status", 2, "red">>>>
  /\ rules[1]["status"] = "active"
  /\ rules[2]["status"] = "error"

\* C11: the monitor loop ends only by cancellation, and after a cycle that
\* raised an exception another cycle completes unless the task is cancelled
C11_LoopSurvivesErrors ==
  /\ [](loop.pc = "done" => loop.exit = "CancelledError")
  /\ \A b \in BOOLEAN :
       (loop.outcome = "error" /\ loop.tick = b)
         ~> (loop.tick # b \/ loop.exit = "CancelledError")

C11_Witness ==
  /\ loop.prev = "error"
  /\ loop.outcome = "ok"
  /\ loop.pc = "sleep"
  /\ monitor.checked
  /\ rules[1]["status"] = "error"

\* C12: of two reconciliation cycles that complete one right after the other,
\* the snapshot of the second still lists every rule that the first flipped to
\* error and whose stored status is still error
C12_SnapshotKeepsRulesInError ==
  [][(last.op = "reconcile" /\ last.resp # "raise"
        /\ last'.op = "reconcile" /\ last'.resp # "raise")
     => \A i \in last.written :
          rules'[i]["status"] = "error"
            => \E k \in 1..Len(monitor'.rules_in_error) :
                 monitor'.rules_in_error[k].rule_id = i]_vars

\* C13: no step changes the stored status of a rule that exists before and
\* after it other than draft to active, active to paused, active to draft,
\* active to error or paused to active
C13_StatusFollowsStateMachine ==
  [][\A i \in RuleIds :
       (Exists(rules, i) /\ Exists(rules', i)
          /\ rules'[i]["status"] # rules[i]["status"])
       => <<rules[i]["status"], rules'[i]["status"]>>
            \in {<<"draft", "active">>, <<"active", "paused">>, <<"active", "draft">>,
                 <<"active", "error">>, <<"paused", "active">>}]_vars

\* C14: the health of a status built from a stats entry is given by the
\* entry's state string alone (started, indexing: green; stopping: yellow;
\* stopped: stopped; aborting, failed: red; anything else: unknown), the
\* counters are passed through unchanged and no error is set
C14_HealthFromStateAlone ==
  (fn.name = "get_status" /\ fn.out # <<>>) =>
    /\ fn.out.health =
         (IF fn.arg.state \in {"started", "indexing"} THEN "green"
          ELSE IF fn.arg.state = "stopping" THEN "yellow"
          ELSE IF fn.arg.state = "stopped" THEN "stopped"
          ELSE IF fn.arg.state \in {"aborting", "failed"} THEN "red"
          ELSE "unknown")
    /\ fn.arg.has_stats => /\ fn.out.docs_processed = fn.arg.documents_processed
                           /\ fn.out.docs_indexed = fn.arg.documents_indexed
    /\ fn.out.error = "none"
    /\ ~fn.out.raised

C14_Witness ==
  /\ fn.name = "get_status"
  /\ fn.arg.state = "started" /\ fn.arg.has_stats
  /\ fn.arg.documents_processed = 0 /\ fn.arg.documents_indexed = 0
  /\ fn.out # <<>>
  /\ fn.out.health = "green" /\ fn.out.docs_processed = 0 /\ fn.out.error = "none"

\* C15: a status query for a rule whose job does not exist, which the engine
\* reports by a not-found error or by an empty list, does not raise and
\* returns health unknown with an error string
C15_AbsentJobIsUnknownWithError ==
  (bk.fn = "get_status" /\ bk.pre[1] = "absent"
     /\ bk.trace[1][2] \in {"not_found", "empty"})
  => (~bk.raised /\ bk.health = "unknown" /\ bk.error # "none")

\* C16: a create request whose report has a failed check and that does not set
\* skip_guardrails is answered 422 with one failure entry for every failed
\* check, each carrying that check's explanation and suggested fix; it writes
\* no rule and calls no backend function.  A create request that writes a rule
\* had a report that passed, or set skip_guardrails.
C16_GuardrailsGateCreate ==
  [][(last'.op = "create" /\ fn'.name = "create_rule" /\ <<fn, last>>' # <<fn, last>>) =>
       /\ (~fn'.out.raised /\ ~fn'.out.all_passed /\ ~fn'.arg[3]) =>
            /\ last'.resp = "422"
            /\ Len(fn'.out.detail) =
                 Cardinality({n \in 1..Len(fn'.out.results) : ~fn'.out.results[n].passed})
            /\ \A n \in 1..Len(fn'.out.results) :
                 ~fn'.out.results[n].passed =>
                   \E k \in 1..Len(fn'.out.detail) :
                     fn'.out.detail[k] =
                       [guardrail |-> fn'.out.results[n].name,
                        explanation |-> fn'.out.results[n].explanation,
                        suggested_fix |-> fn'.out.results[n].suggested_fix]
            /\ rules' = rules
            /\ last'.written = {}
            /\ last'.calls = <<>>
            /\ <<job, idx, ilm>>' = <<job, idx, ilm>>
       /\ (rules' # rules \/ last'.written # {}) =>
            (~fn'.out.raised /\ (fn'.out.all_passed \/ fn'.arg[3]))]_vars

\* a rule is stored, and a later create request is rejected for two checks
C16_Witness ==
  /\ Exists(rules, 1)
  /\ last.op = "create" /\ last.resp = "422"
  /\ fn.name = "create_rule" /\ ~fn.arg[3]
  /\ Len(fn.out.detail) >= 2

\* C17: a report returned by evaluate holds exactly four results, one each
\* for dimension_limit, cardinality, high_cardinality_fields and net_savings;
\* all_passed is true exactly when the four passed; a failed result has an
\* explanation and a suggested fix that is not None.
C17_ReportHasFourChecks ==
  (fn.name = "evaluate" /\ fn.out # <<>>) =>
    (~fn.out.raised =>
       /\ Len(fn.out.results) = 4
       /\ {fn.out.results[n].name : n \in 1..Len(fn.out.results)} =
            {"dimension_limit", "cardinality", "high_cardinality_fields", "net_savings"}
       /\ fn.out.all_passed <=> (\A n \in 1..Len(fn.out.results) : fn.out.results[n].passed)
       /\ \A n \in 1..Len(fn.out.results) :
            ~fn.out.results[n].passed =>
              /\ fn.out.results[n].explanation.kind # ""
              /\ fn.out.results[n].suggested_fix.kind \notin {"", "None"})

\* a report in which the cardinality check alone passed
C17_Witness ==
  /\ fn.name = "evaluate" /\ fn.out # <<>> /\ ~fn.out.raised
  /\ ~fn.out.all_passed
  /\ {n \in 1..Len(fn.out.results) : fn.out.results[n].passed} = {2}

\* C18: evaluate returns a report for every draft rule and every answer of
\* the cluster, failed volume and cardinality lookups included; it never raises.
C18_EvaluateNeverRaises ==
  (fn.name = "evaluate" /\ fn.out # <<>>) => ~fn.out.raised

\* C19 (as amended): the dimension_limit result passed exactly when the rule
\* has at most 5 dimensions, and when it failed its suggested fix names the
\* dimensions beyond the fifth, in order.
C19_DimensionLimitFixNamesExcess ==
  (fn.name = "evaluate" /\ fn.out # <<>> /\ ~fn.out.raised) =>
    /\ fn.out.results[1].name = "dimension_limit"
    /\ fn.out.results[1].passed <=> Len(fn.arg[1].dimensions) <= 5
    /\ ~fn.out.results[1].passed =>
         fn.out.results[1].suggested_fix.names =
           SubSeq(fn.arg[1].dimensions, 6, Len(fn.arg[1].dimensions))

\* a rule with six dimensions failed the check and is told to remove the sixth
C19_Witness ==
  /\ fn.name = "evaluate" /\ fn.out # <<>> /\ ~fn.out.raised
  /\ Len(fn.arg[1].dimensions) = 6
  /\ ~fn.out.results[1].passed
  /\ fn.out.results[1].suggested_fix.names = <<fn.arg[1].dimensions[6]>>

\* C19 (as stated): the same, with the dimensions beyond the fifth named in
\* the explanation of the failed result.
C19_DimensionLimitExplanationNamesExcess ==
  (fn.name = "evaluate" /\ fn.out # <<>> /\ ~fn.out.raised) =>
    /\ fn.out.results[1].name = "dimension_limit"
    /\ fn.out.results[1].passed <=> Len(fn.arg[1].dimensions) <= 5
    /\ ~fn.out.results[1].passed =>
         fn.out.results[1].explanation.names =
           SubSeq(fn.arg[1].dimensions, 6, Len(fn.arg[1].dimensions))

\* C20: the volume query goes to the source pattern without its trailing
\* wildcard, and every cardinality query goes to the source pattern as written.
C20_CardinalityUsesLiteralPattern ==
  (fn.name = "evaluate" /\ fn.out # <<>>) =>
    \A n \in 1..Len(fn.out.queries) :
      /\ fn.out.queries[n][1] = "get_index_stats" =>
           fn.out.queries[n][2] = VolumeIndex(fn.arg[1].index_pattern)
      /\ fn.out.queries[n][1] = "get_field_cardinality" =>
           fn.out.queries[n][2] = fn.arg[1].index_pattern

\* C21: for a source with documents, the estimated series count is the
\* product over the dimensions of 100 for a dimension whose lookup failed and
\* of max(cardinality, 1) for the others (1 with no dimensions), and one
\* cardinality query was issued for every dimension, in order.
C21_SeriesCountIsProduct ==
  (fn.name = "evaluate" /\ fn.out # <<>> /\ fn.arg[2].stats_ok
     /\ fn.arg[2].doc_count > 0) =>
    /\ ~fn.out.raised
    /\ fn.out.cost_estimate.estimated_series_count =
         100 ^ Cardinality({n \in 1..Len(fn.arg[1].dimensions) :
                              fn.arg[1].dimensions[n] \in fn.arg[2].card_fail})
         * (IF fn.arg[2].cardinality >= 1 THEN fn.arg[2].cardinality ELSE 1)
           ^ Cardinality({n \in 1..Len(fn.arg[1].dimensions) :
                            fn.arg[1].dimensions[n] \notin fn.arg[2].card_fail})
    /\ Len(fn.arg[1].dimensions) = 0 => fn.out.cost_estimate.estimated_series_count = 1
    /\ Len(fn.out.queries) = 1 + Len(fn.arg[1].dimensions)
    /\ \A n \in 1..Len(fn.arg[1].dimensions) :
         /\ fn.out.queries[n + 1][1] = "get_field_cardinality"
         /\ fn.out.queries[n + 1][3] = fn.arg[1].dimensions[n]

\* the first lookup failed, the second reported cardinality 0, and the
\* estimate completed with 100 series
C21_Witness ==
  /\ fn.name = "evaluate" /\ fn.out # <<>> /\ ~fn.out.raised
  /\ fn.arg[2].doc_count > 0 /\ fn.arg[2].cardinality = 0
  /\ fn.arg[1].dimensions = <<"service", "host", "d1">>
  /\ fn.arg[2].card_fail = {"service"}
  /\ fn.out.cost_estimate.estimated_series_count = 100
  /\ Len(fn.out.queries) = 4

\* C22: a rule of compute type sum, avg or distribution without a compute
\* field is never stored and never has a job or a destination index; the
\* request that carries it is answered as a validation error.
C22_MissingFieldRejected ==
  \A i \in RuleIds :
    rules[i]["compute"] \in {"sum", "avg", "distribution"} =>
      (~Exists(rules, i) /\ job[i] = "absent" /\ ~idx[i])

\* C23: for a rule of compute type count, the aggregation key of the job and
\* the counter property of the destination mapping are both event_count, not
\* doc_count, and are the field the exporter reads.
C23_CountFieldIsEventCount ==
  (fn.name = "provision" /\ fn.out # <<>> /\ TypeOf(fn.arg.compute) = "count") =>
    /\ fn.out.transform.aggregations = <<"event_count">>
    /\ fn.out.property = <<"event_count">>
    /\ fn.out.transform.aggregations = fn.out.exported

\* C29: the sync delay of the job provisioned for a rule is the rule's
\* group_by.sync_delay.
C29_JobUsesRuleSyncDelay ==
  (fn.name = "provision" /\ fn.out # <<>>) =>
    fn.out.transform.delay = fn.arg.sync_delay

\* C24: for a panel with has_raw_docs, whatever the other inputs, the
\* no_raw_docs signal has 0 points and the recommendation is the fixed
\* "cannot be converted" text, not a strong, moderate or weak candidate text.
C24_RawDocsNeverCandidate ==
  (fn.name = "score_panel" /\ fn.out # <<>> /\ fn.arg[1].has_raw_docs) =>
    /\ \A n \in 1..Len(fn.out.breakdown) :
         fn.out.breakdown[n].signal = "no_raw_docs" => fn.out.breakdown[n].points = 0
    /\ \E n \in 1..Len(fn.out.breakdown) : fn.out.breakdown[n].signal = "no_raw_docs"
    /\ fn.out.recommendation_text.kind = "cannot be converted"
    /\ fn.out.recommendation_text.kind
         \notin {"Strong candidate", "Moderate candidate", "Weak candidate"}

\* a raw-docs panel whose other signals add up to 80, a strong candidate's total
C24_Witness ==
  /\ fn.name = "score_panel" /\ fn.out # <<>>
  /\ fn.arg[1].has_raw_docs
  /\ fn.out.total = 80
  /\ fn.out.recommendation_text.kind = "cannot be converted"

\* C25: the breakdown has six signals with maxima 25, 20, 15, 10, 15, 10, each
\* with points between 0 and its maximum; total is the sum of the six points
\* and lies in 0..95; max_total is 95; and a panel with a date histogram, only
\* numeric metrics, no raw docs, dimensions that are all aggregatable, a
\* lookback of at least 7 days and auto-refresh enabled has total 95.
C25_SixSignalsSumTo95 ==
  (fn.name = "score_panel" /\ fn.out # <<>>) =>
    /\ Len(fn.out.breakdown) = 6
    /\ [n \in 1..6 |-> fn.out.breakdown[n].max_points] = <<25, 20, 15, 10, 15, 10>>
    /\ \A n \in 1..6 : fn.out.breakdown[n].points \in 0..fn.out.breakdown[n].max_points
    /\ fn.out.total = fn.out.breakdown[1].points + fn.out.breakdown[2].points
                        + fn.out.breakdown[3].points + fn.out.breakdown[4].points
                        + fn.out.breakdown[5].points + fn.out.breakdown[6].points
    /\ fn.out.total \in 0..95
    /\ fn.out.max_total = 95
    /\ (/\ fn.arg[1].has_date_histogram
        /\ fn.arg[1].metrics \in {<<"count">>, <<"sum", "percentiles">>}
        /\ ~fn.arg[1].has_raw_docs
        /\ fn.arg[1].group_by_fields # <<>>
        /\ \A k \in 1..Len(fn.arg[1].group_by_fields) :
             fn.arg[1].group_by_fields[k] \in fn.arg[2].agg
        /\ fn.arg[3] \in {<<"now-", <<7>>, "d">>, <<"now-", <<1>>, "w">>,
                          <<"now-", <<1>>, "M">>, <<"now-", <<1>>, "y">>,
                          <<"now-", <<200>>, "h">>}
        /\ fn.arg[4] = <<30000>>)
         => fn.out.total = 95

\* the perfect panel with a lookback of exactly 7 days
C25_Witness ==
  /\ fn.name = "score_panel" /\ fn.out # <<>>
  /\ fn.arg[3] = <<"now-", <<7>>, "d">>
  /\ fn.arg[1].group_by_fields = <<"service", "message">>
  /\ fn.out.total = 95 /\ fn.out.max_total = 95

\* C30: the aggregatable_dimensions signal has 10 points when the panel has
\* dimensions that all resolve to an aggregatable type, 0 points exactly when
\* some dimension resolves to a type that is not aggregatable, and 5 points
\* otherwise (no dimensions, no or an empty field-type map, or a dimension
\* absent from the map).
C30_AggregatableDimensionsSignal ==
  (fn.name = "score_panel" /\ fn.out # <<>>) =>
    /\ fn.out.breakdown[4].signal = "aggregatable_dimensions"
    /\ fn.out.breakdown[4].points =
         IF \E k \in 1..Len(fn.arg[1].group_by_fields) :
              fn.arg[2].given /\ fn.arg[1].group_by_fields[k] \in fn.arg[2].text
         THEN 0
         ELSE IF /\ fn.arg[1].group_by_fields # <<>> /\ fn.arg[2].given
                 /\ \A k \in 1..Len(fn.arg[1].group_by_fields) :
                      fn.arg[1].group_by_fields[k] \in fn.arg[2].agg
         THEN 10
         ELSE 5

\* C28: no backend call removes a retention policy; a provision call that
\* finds the policy of its retention value issues no put_lifecycle and leaves
\* the policies as they are; a policy is put only after get_lifecycle
\* answered not found.
C28_PoliciesCreateIfAbsentNeverDeleted ==
  [][/\ ilm \subseteq ilm'
     /\ bk'.fn \in {"provision", "deprovision"} =>
          /\ \A n \in 1..Len(bk'.trace) :
               bk'.trace[n][1] = "put_lifecycle" =>
                 (n > 1 /\ bk'.trace[n - 1] = <<"get_lifecycle", "not_found">>)
          /\ ilm = Retentions =>
               (ilm' = ilm /\ \A n \in 1..Len(bk'.trace) :
                                bk'.trace[n][1] # "put_lifecycle")
          /\ bk'.fn = "deprovision" => ilm' = ilm]_vars

\* rule 2 was provisioned with the policy rule 1's provision had created, and
\* rule 1 is still provisioned
C28_Witness ==
  /\ bk.fn = "provision" /\ bk.id = 2 /\ bk.success
  /\ bk.trace[1] = <<"get_lifecycle", "ok">>
  /\ job[1] = "started" /\ idx[1]
  /\ ilm = Retentions

\* C26: in every state between operations, a rule stored as draft or paused
\* and a rule that has been deleted has no job and no destination index in
\* the engine.
C26_InactiveRulesHoldNoResources ==
  \A i \in RuleIds :
    rules[i]["status"] \in {"draft", "paused", "absent"} =>
      (job[i] = "absent" /\ ~idx[i])

\* C27: the commit of a reconciliation cycle stores error only for rules that
\* are active when it writes: a rule paused, set to draft or deleted since the
\* cycle read it does not become error.
C27_ReconcilerWritesOnlyActive ==
  [][(loop.dirty # <<>> /\ loop'.dirty = <<>>) =>
       \A i \in RuleIds :
         (rules'[i]["status"] = "error" /\ rules[i]["status"] # "error") =>
           rules[i]["status"] = "active"]_vars

============================================================================
